---- MODULE Spec2Model ----
(***************************************************************************)
(* npm-dependency-watcher (src/main.go): a cron-driven triage cycle that   *)
(* computes a cutoff, fetches the dependents of a target package, walks    *)
(* them in order and sends the unscoped, recent ones to a scanner.         *)
(*                                                                         *)
(* Package names are sequences of one-character strings so that            *)
(* strings.HasPrefix can be computed.  Times are Unix milliseconds.        *)
(***************************************************************************)
EXTENDS Integers, Sequences, FiniteSets, TLC

VARIABLES
    proc,      \* the process: "running", "stopping" (signal received, scheduler
               \* stopped, main waits), "stopped" (main returned), "fatal" (log.Fatal)
    interval,  \* strconv.ParseInt(config.IntervalHrs), main.go:163
    hour,      \* wall clock, in whole hours since the epoch
    cycle,     \* number of scheduled callbacks started so far
    now,       \* time.Now().UnixMilli() of the current callback
    prevNow,   \* `now` of the previous callback
    cutoff,    \* the cutoff of the current callback
    pc,        \* position of the callback: Idle, Fetching, Walking, Done, Failed
    res,       \* the registry's answer to the fetch of this cycle
    d,         \* the decoded Data
    idx,       \* number of elements of d.Packages the range loop has consumed
    triaged,   \* the loop's counter
    attempts,  \* calls of sendToScanner made in this cycle, in order
    err        \* the error the cycle returned, "nil" when none

vars == <<proc, interval, hour, cycle, now, prevNow, cutoff, pc, res, d, idx,
          triaged, attempts, err>>

----------------------------------------------------------------------------
(* Bounds of the model *)

MaxLen == 3          \* longest package list the registry returns
MaxInterval == 5     \* largest configured interval, in hours
HoursBefore == 5     \* the process starts this many hours before midnight
HoursAfter == 1      \* the clock is followed this many hours past midnight

(* Program constants *)

StatusOK == 200           \* http.StatusOK
HourMs == 3600000         \* time.Hour.Milliseconds()
CronMinute == 52          \* minute field of the cron expression
DayHours == 24            \* range of the hour field of a cron expression

Target == "react"         \* c.Target; any non-empty string

StartHour == DayHours - HoursBefore
LastHour == DayHours + HoursAfter

----------------------------------------------------------------------------
(* Inputs *)

Names == { <<"a">>, <<"b", "@">>, <<"@", "s">> }

TsOffsets == {-1, 0}

Packages(c) == [Name : Names, TS : {c + o : o \in TsOffsets}]

SeqsUpTo(S, n) == UNION {[1..k -> S] : k \in 0..n}

NoData == [Dependency |-> "", Packages |-> <<>>]

NoResponse == [err |-> FALSE, status |-> 0, decodes |-> FALSE, body |-> NoData]

Bodies(c, n) ==
    [Dependency : {Target, "vue"}, Packages : SeqsUpTo(Packages(c), n)]

\* What the registry can answer.  Failing answers carry short bodies only.
FetchResponses(c) ==
    {[err |-> TRUE, status |-> 0, decodes |-> FALSE, body |-> NoData]}
    \cup [err : {FALSE}, status : {404}, decodes : {TRUE}, body : Bodies(c, 1)]
    \cup {[err |-> FALSE, status |-> StatusOK, decodes |-> FALSE, body |-> NoData]}
    \cup [err : {FALSE}, status : {StatusOK}, decodes : {TRUE},
          body : {b \in Bodies(c, MaxLen) :
                     b.Dependency = Target \/ Len(b.Packages) <= 1}]

LoginPath == <<"/", "login">>
AnalysePath == <<"/", "api">>

\* What the scanner can answer: a transport error, or the final response
\* after redirects with its status and the path of its request.
ScanResponses ==
    {[err |-> TRUE, status |-> 0, path |-> <<>>]}
    \cup [err : {FALSE}, status : {StatusOK, 500}, path : {LoginPath, AnalysePath}]

----------------------------------------------------------------------------
(* Pure functions of the program *)

\* IsScoped as strings.Contains(p.Name, "@")
IsScoped_Contains(name) == \E i \in 1..Len(name) : name[i] = "@"

\* Package.IsScoped: strings.HasPrefix(p.Name, "@")
IsScoped(name) == Len(name) >= 1 /\ name[1] = "@"

\* the cutoff with the lookback added instead of subtracted
computeCutoff_Plus(n, h) == n + HourMs * h

\* cutoff := now - time.Hour.Milliseconds()*interval
computeCutoff(n, h) == n - HourMs * h

\* The error sendToScanner returns for the response r
sendToScanner(r) ==
    IF r.err THEN "ScanTransport"
    ELSE IF r.status # StatusOK THEN "ScanStatus"
    ELSE IF r.path = LoginPath THEN "AuthRedirect"
    ELSE "nil"

\* the validation without the dependency check
fetchError_NoMismatch(r, target) ==
    IF r.err THEN "FetchTransport"
    ELSE IF r.status # StatusOK THEN "FetchStatus"
    ELSE IF ~r.decodes THEN "Decode"
    ELSE IF Len(r.body.Packages) = 0 THEN "Empty"
    ELSE "nil"

\* the validation with the length check before the dependency check
fetchError_EmptyFirst(r, target) ==
    IF r.err THEN "FetchTransport"
    ELSE IF r.status # StatusOK THEN "FetchStatus"
    ELSE IF ~r.decodes THEN "Decode"
    ELSE IF Len(r.body.Packages) = 0 THEN "Empty"
    ELSE IF r.body.Dependency # target THEN "Mismatch"
    ELSE "nil"

\* The error triageDependencies returns before its loop for the response r
fetchError(r, target) ==
    IF r.err THEN "FetchTransport"
    ELSE IF r.status # StatusOK THEN "FetchStatus"
    ELSE IF ~r.decodes THEN "Decode"
    ELSE IF r.body.Dependency # target THEN "Mismatch"
    ELSE IF Len(r.body.Packages) = 0 THEN "Empty"
    ELSE "nil"

\* the loop with `continue` in place of `break`
walkStep_NoBreak(p, c) ==
    IF p.TS < c THEN "continue"
    ELSE IF Len(p.Name) >= 1 /\ p.Name[1] = "@" THEN "continue"
    ELSE "send"

\* the loop with `<=` in place of `<`
walkStep_Inclusive(p, c) ==
    IF p.TS <= c THEN "break"
    ELSE IF Len(p.Name) >= 1 /\ p.Name[1] = "@" THEN "continue"
    ELSE "send"

\* What one iteration of the range loop does with package p
walkStep(p, c) ==
    IF p.TS < c THEN "break"
    ELSE IF IsScoped(p.Name) THEN "continue"
    ELSE "send"

\* the loop ignoring the error of sendToScanner
sendFailed_Never(out) == FALSE

\* The loop's test of the error of sendToScanner: if err != nil
sendFailed(out) == out # "nil"

\* the callback logging the error instead of log.Fatal
afterCycle_LogOnly(e, p) == p

\* What the callback does to the process p with the error of
\* triageDependencies: log.Fatal exits, otherwise the process is as it was
afterCycle(e, p) == IF e # "nil" THEN "fatal" ELSE p

\* the callback goroutine runs while the process has not exited
Alive == proc \in {"running", "stopping"}

\* The hours at which the expression "52 */N * * *" fires
cronMatches(h, n) == (h % DayHours) % n = 0

\* time of the tick of hour h
tickTime(h) == h * HourMs + CronMinute * (HourMs \div 60)

----------------------------------------------------------------------------
(* The state machine *)

Init ==
    /\ proc = "running"
    /\ interval \in 1..MaxInterval
    /\ hour = StartHour - 1
    /\ cycle = 0
    /\ now = 0
    /\ prevNow = 0
    /\ cutoff = 0
    /\ pc = "Idle"
    /\ res = NoResponse
    /\ d = NoData
    /\ idx = 0
    /\ triaged = 0
    /\ attempts = <<>>
    /\ err = "nil"

\* The scheduler fires the callback: main.go:181-186, up to the fetch.
Tick ==
    /\ proc = "running"
    /\ pc \in {"Idle", "Done"}
    /\ \E h \in (hour + 1)..LastHour :
          /\ cronMatches(h, interval)
          /\ \A g \in (hour + 1)..(h - 1) : ~cronMatches(g, interval)
          /\ hour' = h
          /\ now' = tickTime(h)
          /\ cutoff' = computeCutoff(tickTime(h), interval)
    /\ prevNow' = now
    /\ cycle' = cycle + 1
    /\ pc' = "Fetching"
    /\ res' = NoResponse
    /\ d' = NoData
    /\ idx' = 0
    /\ triaged' = 0
    /\ attempts' = <<>>
    /\ err' = "nil"
    /\ UNCHANGED <<proc, interval>>

\* triageDependencies, main.go:79-105: the request and its validation.
Fetch ==
    /\ Alive
    /\ pc = "Fetching"
    /\ \E r \in FetchResponses(cutoff) :
          LET e == fetchError(r, Target) IN
          /\ res' = r
          /\ d' = IF ~r.err /\ r.status = StatusOK /\ r.decodes THEN r.body ELSE NoData
          /\ err' = e
          /\ pc' = IF e = "nil" THEN "Walking" ELSE "Failed"
          /\ proc' = afterCycle(e, proc)
    /\ UNCHANGED <<interval, hour, cycle, now, prevNow, cutoff, idx, triaged, attempts>>

\* position of the callback after the loop consumed i elements
afterIter(i) == IF i = Len(d.Packages) THEN "Done" ELSE "Walking"

\* One iteration of the loop, main.go:106-119, stopping at the cutoff.
WalkBreak ==
    /\ Alive /\ pc = "Walking"
    /\ walkStep(d.Packages[idx + 1], cutoff) = "break"
    /\ pc' = "Done"
    /\ UNCHANGED <<proc, interval, hour, cycle, now, prevNow, cutoff, res, d, idx,
                   triaged, attempts, err>>

\* One iteration of the loop skipping a scoped package.
WalkSkip ==
    /\ Alive /\ pc = "Walking"
    /\ walkStep(d.Packages[idx + 1], cutoff) = "continue"
    /\ idx' = idx + 1
    /\ pc' = afterIter(idx + 1)
    /\ UNCHANGED <<proc, interval, hour, cycle, now, prevNow, cutoff, res, d,
                   triaged, attempts, err>>

\* One iteration of the loop calling sendToScanner.
WalkSend ==
    /\ Alive /\ pc = "Walking"
    /\ walkStep(d.Packages[idx + 1], cutoff) = "send"
    /\ \E r \in ScanResponses :
          LET out == sendToScanner(r)
              e == IF sendFailed(out) THEN out ELSE "nil"
          IN
          /\ attempts' = Append(attempts,
                [pos |-> idx + 1, name |-> d.Packages[idx + 1].Name,
                 res |-> r, out |-> out])
          /\ err' = e
          /\ idx' = IF e = "nil" THEN idx + 1 ELSE idx
          /\ triaged' = IF e = "nil" THEN triaged + 1 ELSE triaged
          /\ pc' = IF e = "nil" THEN afterIter(idx + 1) ELSE "Failed"
          /\ proc' = afterCycle(e, proc)
    /\ UNCHANGED <<interval, hour, cycle, now, prevNow, cutoff, res, d>>

\* SIGINT or SIGTERM in any state, main.go:204-207: main wakes and calls
\* scheduler.Stop(), after which no tick fires; a running callback goes on.
Signal ==
    /\ proc = "running"
    /\ proc' = "stopping"
    /\ UNCHANGED <<interval, hour, cycle, now, prevNow, cutoff, pc, res, d, idx,
                   triaged, attempts, err>>

\* main.go:208-209: the context of Stop() is done and main returns.  Whether
\* that context waits for a running callback is the scheduler library's
\* choice, so main may return at any position of the callback.
Exit ==
    /\ proc = "stopping"
    /\ proc' = "stopped"
    /\ UNCHANGED <<interval, hour, cycle, now, prevNow, cutoff, pc, res, d, idx,
                   triaged, attempts, err>>

Next == Tick \/ Fetch \/ WalkBreak \/ WalkSkip \/ WalkSend \/ Signal \/ Exit

Spec == Init /\ [][Next]_vars

\* The cutoff computation of the callback alone, main.go:182-183, for any
\* clock reading and any lookback, zero included.
Nows == {tickTime(h) + j : h \in StartHour..LastHour, j \in {0, 1}}

InitCutoff ==
    /\ proc = "running"
    /\ interval \in 0..MaxInterval
    /\ now \in Nows
    /\ hour = StartHour
    /\ cycle = 0
    /\ prevNow = 0
    /\ cutoff = 0
    /\ pc = "Idle"
    /\ res = NoResponse
    /\ d = NoData
    /\ idx = 0
    /\ triaged = 0
    /\ attempts = <<>>
    /\ err = "nil"

CutoffStep ==
    /\ pc = "Idle"
    /\ cutoff' = computeCutoff(now, interval)
    /\ pc' = "Fetching"
    /\ cycle' = cycle + 1
    /\ UNCHANGED <<proc, interval, hour, now, prevNow, res, d, idx, triaged,
                   attempts, err>>

SpecCutoff == InitCutoff /\ [][CutoffStep]_vars

----------------------------------------------------------------------------
(* The reference functions of the specification *)

\* a name that begins with "@"
BeginsWithAt(name) == name # <<>> /\ Head(name) = "@"

RECURSIVE selectFrom(_, _, _)
\* positions i..Len(pkgs) of pkgs that a single forward pass selects
selectFrom(pkgs, c, i) ==
    IF i > Len(pkgs) THEN <<>>
    ELSE IF pkgs[i].TS < c THEN <<>>
    ELSE IF BeginsWithAt(pkgs[i].Name) THEN selectFrom(pkgs, c, i + 1)
    ELSE <<i>> \o selectFrom(pkgs, c, i + 1)

\* selectForScan of the specification, as the positions it selects
selectIdx(pkgs, c) == selectFrom(pkgs, c, 1)

selectForScan(pkgs, c) ==
    [i \in 1..Len(selectIdx(pkgs, c)) |-> pkgs[selectIdx(pkgs, c)[i]]]

RECURSIVE twoStageFrom(_, _, _)
\* dispatching sel one by one with fail-fast, given the outcomes known so
\* far: "Failed", "Done", or "Walking" while outcomes are still to come
twoStageFrom(sel, outs, i) ==
    IF i > Len(sel) THEN "Done"
    ELSE IF i > Len(outs) THEN "Walking"
    ELSE IF outs[i] # "nil" THEN "Failed"
    ELSE twoStageFrom(sel, outs, i + 1)

twoStage(sel, outs) == twoStageFrom(sel, outs, 1)

IsPrefix(s, t) == Len(s) <= Len(t) /\ \A i \in 1..Len(s) : s[i] = t[i]

attemptPos == [i \in 1..Len(attempts) |-> attempts[i].pos]
attemptNames == [i \in 1..Len(attempts) |-> attempts[i].name]
attemptOuts == [i \in 1..Len(attempts) |-> attempts[i].out]

InCycle == pc \in {"Walking", "Done", "Failed"}

\* the first position of d.Packages published before the cutoff, 0 if none
firstOld ==
    IF \E k \in 1..Len(d.Packages) : d.Packages[k].TS < cutoff
    THEN CHOOSE k \in 1..Len(d.Packages) :
            /\ d.Packages[k].TS < cutoff
            /\ \A j \in 1..(k - 1) : d.Packages[j].TS >= cutoff
    ELSE 0

FetchErrors == {"FetchTransport", "FetchStatus", "Decode", "Mismatch", "Empty"}

----------------------------------------------------------------------------
(* Claims *)

\* C1: if k is the first position of the fetched list whose timestamp is
\* strictly less than the cutoff, no package at a position >= k is ever sent
\* to the scanner in that cycle.
C1_EarlyTermination ==
    firstOld # 0 => \A i \in 1..Len(attempts) : attempts[i].pos < firstOld

\* C1 witness: a finished cycle that stopped at an old package although a
\* later one is recent and unscoped, after sending an earlier one.
C1_Witness ==
    /\ pc = "Done"
    /\ firstOld # 0
    /\ attempts # <<>>
    /\ \E m \in (firstOld + 1)..Len(d.Packages) :
          d.Packages[m].TS >= cutoff /\ ~BeginsWithAt(d.Packages[m].Name)

\* every package of the accepted list is at or after the cutoff
AllRecent == \A k \in 1..Len(d.Packages) : d.Packages[k].TS >= cutoff

\* the positions of the unscoped packages among the first n, in order
unscopedUpTo(n) ==
    SelectSeq([i \in 1..n |-> i], LAMBDA i : ~BeginsWithAt(d.Packages[i].Name))

\* C2: when the fetch succeeds, every timestamp is >= cutoff and every
\* dispatch succeeds, the cycle is never Failed, and once Done the packages
\* sent are exactly the unscoped ones, each once, in input order.
C2_AllUnscopedSent ==
    (/\ InCycle
     /\ fetchError(res, Target) = "nil"
     /\ AllRecent
     /\ \A i \in 1..Len(attempts) : attempts[i].out = "nil")
    => /\ pc # "Failed"
       /\ err = "nil"
       /\ attemptPos = unscopedUpTo(idx)
       /\ attemptNames = [i \in 1..Len(attempts) |-> d.Packages[attemptPos[i]].Name]
       /\ pc = "Done" => /\ idx = Len(d.Packages)
                         /\ attemptPos = unscopedUpTo(Len(d.Packages))
                         /\ triaged = Len(attempts)

\* C2 witness: a Done cycle over a full-length recent list holding scoped
\* and unscoped names, with two sends of different names.
C2_Witness ==
    /\ pc = "Done"
    /\ AllRecent
    /\ Len(d.Packages) = MaxLen
    /\ \E k \in 1..Len(d.Packages) : BeginsWithAt(d.Packages[k].Name)
    /\ Len(attempts) >= 2
    /\ attempts[1].name # attempts[2].name

\* C2 witness of the empty selection: Done with every package scoped.
C2_WitnessAllScoped ==
    /\ pc = "Done"
    /\ AllRecent
    /\ Len(d.Packages) >= 2
    /\ \A k \in 1..Len(d.Packages) : BeginsWithAt(d.Packages[k].Name)
    /\ attempts = <<>>

\* C3: a failed call of sendToScanner is the last call of its cycle, every
\* call before it succeeded, no position is sent twice, and the cycle is
\* Failed with that call's error.
C3_FailFast ==
    /\ \A i \in 1..Len(attempts) :
          attempts[i].out # "nil" =>
             /\ i = Len(attempts)
             /\ pc = "Failed"
             /\ err = attempts[i].out
    /\ \A i, j \in 1..Len(attempts) : i < j => attempts[i].pos < attempts[j].pos
    /\ (pc = "Failed" /\ attempts # <<>>) => attempts[Len(attempts)].out # "nil"

\* C3 witness: x sent, y failed, z (recent and unscoped) never attempted.
C3_Witness ==
    /\ pc = "Failed"
    /\ Len(attempts) = 2
    /\ attempts[1].out = "nil"
    /\ attempts[2].out = "ScanTransport"
    /\ \E m \in (attempts[2].pos + 1)..Len(d.Packages) :
          walkStep(d.Packages[m], cutoff) = "send"

\* the fetch answered 200 with a decodable body for the target and at least
\* one package
FetchGood ==
    /\ ~res.err
    /\ res.status = 200
    /\ res.decodes
    /\ res.body.Dependency = Target
    /\ res.body.Packages # <<>>

\* C4: a fetch failure ends the cycle Failed with no dispatch; a dispatch
\* implies that the cycle's fetch was good.
C4_NoDispatchOnFetchFailure ==
    /\ attempts # <<>> => FetchGood
    /\ (InCycle /\ ~FetchGood) =>
          /\ pc = "Failed"
          /\ err \in FetchErrors
          /\ attempts = <<>>

\* C4 witness: a failed fetch whose body held a package that would have
\* been sent.
C4_Witness ==
    /\ pc = "Failed"
    /\ err \in FetchErrors
    /\ res.body.Packages # <<>>
    /\ walkStep(res.body.Packages[1], cutoff) = "send"

\* C5: whenever the final request path of a dispatch is the login path the
\* outcome is AuthRedirect, whatever the status of the final response.
C5_LoginIsAuthRedirect ==
    \A i \in 1..Len(attempts) :
        (~attempts[i].res.err /\ attempts[i].res.path = LoginPath)
        => attempts[i].out = "AuthRedirect"

\* C6: for a 200 response with a decodable body, a dependency other than the
\* target is rejected with Mismatch whatever the packages; the target with no
\* package is rejected with Empty; anything else is accepted.
C6_FetchValidation ==
    (InCycle /\ ~res.err /\ res.status = 200 /\ res.decodes) =>
        /\ res.body.Dependency # Target => (pc = "Failed" /\ err = "Mismatch")
        /\ (res.body.Dependency = Target /\ Len(res.body.Packages) = 0)
              => (pc = "Failed" /\ err = "Empty")
        /\ (res.body.Dependency = Target /\ Len(res.body.Packages) > 0)
              => (err \notin FetchErrors /\ d = res.body)

\* C6 witness: a mismatching response with no package, rejected.
C6_Witness ==
    /\ pc = "Failed"
    /\ ~res.err /\ res.status = 200 /\ res.decodes
    /\ res.body.Dependency # Target
    /\ res.body.Packages = <<>>

\* C7: a Failed cycle terminates the process and nothing happens after; a
\* cycle that ends Done leaves the process as it was (running, unless a
\* signal has stopped the scheduler), and while it is running the next tick
\* starts a fresh cycle with a newly computed cutoff.
C7_FailureIsFatal ==
    /\ [](pc = "Failed" => proc = "fatal")
    /\ [](proc = "fatal" => pc = "Failed")
    /\ [][proc # "fatal"]_vars
    /\ [][(pc # "Done" /\ pc' = "Done") => (proc' = proc /\ proc' # "fatal")]_vars
    /\ []((pc = "Done" /\ proc = "running"
             /\ \E h \in (hour + 1)..LastHour : (h % 24) % interval = 0)
          => ENABLED Tick)
    /\ [][(pc = "Done" /\ pc' # "Done") =>
            /\ pc' = "Fetching"
            /\ proc = "running" /\ proc' = "running"
            /\ cycle' = cycle + 1
            /\ attempts' = <<>> /\ idx' = 0 /\ d' = NoData /\ err' = "nil"
            /\ now' > now
            /\ cutoff' = now' - interval * 3600000]_vars
    /\ [][proc # "running" => cycle' = cycle]_vars

\* C7 witness: a cycle failed after an earlier cycle was Done.
C7_Witness ==
    /\ cycle >= 2
    /\ pc = "Failed"
    /\ proc = "fatal"

\* C8: any two consecutive scheduled ticks are exactly `interval` hours
\* apart.
C8_CadenceIsInterval ==
    cycle >= 2 => now - prevNow = interval * 3600000

\* C9: cutoff = now - lookbackHours * 3,600,000; it equals now for a
\* lookback of 0 and is strictly smaller than the cutoff of every smaller
\* lookback.
C9_Cutoff ==
    pc = "Fetching" =>
        /\ cutoff = now - interval * 3600000
        /\ interval = 0 => cutoff = now
        /\ \A h \in 0..(interval - 1) :
              /\ cutoff < computeCutoff(now, h)
              /\ computeCutoff(now, h + 1) < computeCutoff(now, h)

\* C9 witness: a cutoff computed with the largest lookback.
C9_Witness ==
    /\ pc = "Fetching"
    /\ interval = MaxInterval
    /\ cutoff < now

\* C10: the sends made so far are a prefix of selectForScan(packages,
\* cutoff), and the cycle's outcome is that of dispatching the selection one
\* by one with fail-fast.
C10_Refinement ==
    (InCycle /\ FetchGood) =>
        LET sel == selectIdx(d.Packages, cutoff)
            two == twoStage(sel, attemptOuts)
        IN
        /\ IsPrefix(attemptPos, sel)
        /\ IsPrefix(attemptNames,
                    [i \in 1..Len(sel) |-> selectForScan(d.Packages, cutoff)[i].Name])
        /\ pc = "Done" => (two = "Done" /\ Len(attempts) = Len(sel) /\ err = "nil")
        /\ pc = "Failed" => (two = "Failed" /\ err = attemptOuts[Len(attempts)])
        /\ pc = "Walking" => two \in {"Walking", "Done"}

\* C10 witness: a cycle Failed at the second selected package of a list
\* that also holds a scoped and an old package.
C10_Witness ==
    /\ pc = "Failed"
    /\ Len(attempts) = 2
    /\ Len(selectIdx(d.Packages, cutoff)) = 2
    /\ Len(d.Packages) > 2

====
